---- MODULE Spec2Model ----
(***************************************************************************)
(* Event read-model of the sports app: the EventsProvider context          *)
(* (contexts/EventsContext), its live subscription, its offline cache and  *)
(* the write operations it offers (createEvent, updateEvent, deleteEvent,  *)
(* toggleRSVP, addComment), run by several clients against one remote      *)
(* document store; the reads of FirebaseService, the sessions of           *)
(* AuthContext and the search/filter projection of the EventsFeed screen.  *)
(***************************************************************************)
EXTENDS Integers, Sequences, FiniteSets, TLC

\* ---------------------------------------------------------------- bounds
\* Calls that hand a write to the backend, over all devices.
MaxCalls == 4
\* The same, in the single-device scenario.
SessionCalls == 2
\* Writes a client may have in flight (issued, not yet answered).
MaxOutbox == 2
\* Un-awaited AsyncStorage.setItem calls a client may have in flight.
MaxCacheQ == 2
\* Calls of the onAuthStateChanged callback that may be running at a time.
MaxCallbacks == 2
\* Characters of an address handed to validateEmail.
MaxEmailLen == 6

\* ------------------------------------------------------------- universes
Clients == {"c1", "c2"}
Users == {"u1", "u2"}
EventIds == {"e1", "e2"}
NoUser == "none"
\* Times are milliseconds. The wall clock advances by one with every call that
\* reads `new Date()`; the scenarios start one millisecond before a full
\* second.
Epoch == 1000 - 1
DateTimes == {Epoch + 1, Epoch + 2}

\* ------------------------------------------------------------- variables
VARIABLES
  store,     \* remote collection 'events': document id -> document body
  comments,  \* remote collection 'comments'
  clock,     \* current time in ms, as read by `new Date()`
  user,      \* per client: useAuth().user (uid or NoUser)
  sub,       \* per client: the provider's onSnapshot listener: "open", "failed"
             \* once its error callback ran, "closed" after unsubscribe
  events,    \* per client: useState<Event[]> of the provider
  loading,   \* per client: useState(true) of the provider
  cache,     \* per client: AsyncStorage entry 'events'
  cacheQ,    \* per client: setItem calls issued by cacheEvents, not yet done
  hyd,       \* per client: position of loadCachedEvents
  stale,     \* clients the backend owes a snapshot of the current collection
  lastSnapshot, \* per client: the list the last call of the snapshot callback
             \* built, as <<list>>; <<>> while it has not been called (history)
  outbox,    \* per client: writes issued and awaited, oldest first
  lastError, \* per client: outcome of the last operation: which one threw, on
             \* which event id, and the message (msg "ok": it returned)
  lastToggle, \* per client: the last toggleRSVP call that issued a write, with
             \* the RSVP fields it read (history, for stating the claims)
  feed,      \* per client: useState of the EventsFeed screen (searchQuery,
             \* filters, filteredEvents), NoFeed while it is not shown
  fetched,   \* per client: what the last FirebaseService.getEvents / getEvent
             \* call returned
  card,      \* per client: the event screen last rendered (an EventCard of
             \* the feed or EventDetails), NoCard while none is mounted
  authUser,  \* Firebase Auth: uid of auth.currentUser, or NoUser
  userDocs,  \* remote collection 'users': uid -> document body
  sessionUser, \* AuthProvider: useState<User | null>, with the role
  persisted, \* AsyncStorage entry 'user'
  cbs,       \* AuthProvider: running calls of the onAuthStateChanged callback
  authCall,  \* AuthProvider: the running signUp / signOut / updateProfile call
  probe      \* the argument and the result of a call of a utility function

authVars == <<authUser, userDocs, sessionUser, persisted, cbs, authCall>>

eventsVars == <<store, comments, clock, user, sub, events, loading, cache, cacheQ,
                hyd, stale, lastSnapshot, outbox, lastError, lastToggle, feed,
                fetched, card>>

vars == <<store, comments, clock, user, sub, events, loading, cache, cacheQ, hyd,
          stale, lastSnapshot, outbox, lastError, lastToggle, feed, fetched,
          card, authVars, probe>>

\* ------------------------------------------------------------ data shapes
Role(u) == IF u = "u1" THEN "organizer" ELSE "user"

\* firebase Timestamp <-> JS Date (milliseconds)
TimestampFromDate(ms) ==
  [seconds |-> ms \div 1000, nanoseconds |-> (ms % 1000) * 1000000]

toDate(ts) == ts.seconds * 1000 + ts.nanoseconds \div 1000000

\* Date.prototype.toJSON inside JSON.stringify, and `new Date(string)`
DateToJSON(ms) == <<"iso", ms \div 1000, ms % 1000>>

\* a parser that keeps whole seconds only
DateFromJSONSeconds(str) == str[2] * 1000

DateFromJSON(str) == str[2] * 1000 + str[3]

Includes(list, x) == \E i \in 1..Len(list) : list[i] = x

\* events.find(e => e.id === eventId): index of the first match, 0 if none
FindIndex(list, eventId) ==
  IF \E i \in 1..Len(list) : list[i].id = eventId
  THEN CHOOSE i \in 1..Len(list) :
         /\ list[i].id = eventId
         /\ \A j \in 1..(i - 1) : list[j].id # eventId
  ELSE 0

\* Firestore field transforms on an array field
arrayUnionAppends(list, x) == Append(list, x)

arrayUnion(list, x) == IF Includes(list, x) THEN list ELSE Append(list, x)

arrayRemove(list, x) == SelectSeq(list, LAMBDA y : y # x)

\* ------------------------------------------------------------- snapshots
\* query(collection(db,'events'), orderBy('dateTime','asc')): document ids in
\* ascending dateTime order, ties in document-id order
IdRank(id) == IF id = "e1" THEN 1 ELSE 2

\* the same query without orderBy: documents come in id order
BeforeById(st, a, b) == IdRank(a) < IdRank(b)

Before(st, a, b) ==
  \/ toDate(st[a].dateTime) < toDate(st[b].dateTime)
  \/ /\ toDate(st[a].dateTime) = toDate(st[b].dateTime)
     /\ IdRank(a) < IdRank(b)

\* documents of the collection that exist (a deleted id is never assigned again)
LiveIds(st) == {id \in DOMAIN st : ~st[id].deleted}

RECURSIVE OrderedIds(_, _)
OrderedIds(st, ids) ==
  IF ids = {} THEN <<>>
  ELSE LET first == CHOOSE a \in ids : \A b \in ids \ {a} : Before(st, a, b)
       IN  <<first>> \o OrderedIds(st, ids \ {first})

\* the object pushed for one document by the onSnapshot callback:
\* { id: doc.id, ...data, dateTime: ..., createdAt: ..., updatedAt: ... }, where
\* a later property of the literal replaces an earlier one of the same name
DecodeDoc(id, data) ==
  [id        |-> IF "id" \in DOMAIN data THEN data.id ELSE id,
   hostId    |-> data.hostId,
   hostName  |-> data.hostName,
   title     |-> data.title,
   rsvpCount |-> data.rsvpCount,
   rsvpList  |-> data.rsvpList,
   dateTime  |-> toDate(data.dateTime),
   createdAt |-> toDate(data.createdAt),
   updatedAt |-> toDate(data.updatedAt)]

\* snapshot.forEach(...) over the query result
DecodeSnapshot(st) ==
  LET ids == OrderedIds(st, LiveIds(st))
  IN  [i \in 1..Len(ids) |-> DecodeDoc(ids[i], st[ids[i]])]

\* FirebaseService.getEvents / getEvent: the object built for one document
ServiceDecodeDoc(id, data) ==
  [id        |-> IF "id" \in DOMAIN data THEN data.id ELSE id,
   hostId    |-> data.hostId,
   hostName  |-> data.hostName,
   title     |-> data.title,
   rsvpCount |-> data.rsvpCount,
   rsvpList  |-> data.rsvpList,
   dateTime  |-> toDate(data.dateTime),
   createdAt |-> toDate(data.createdAt),
   updatedAt |-> toDate(data.updatedAt)]

\* JSON.stringify(eventsData) and the decoding done by loadCachedEvents
EventToJSON(e) ==
  [id        |-> e.id,
   hostId    |-> e.hostId,
   hostName  |-> e.hostName,
   title     |-> e.title,
   rsvpCount |-> e.rsvpCount,
   rsvpList  |-> e.rsvpList,
   dateTime  |-> DateToJSON(e.dateTime),
   createdAt |-> DateToJSON(e.createdAt),
   updatedAt |-> DateToJSON(e.updatedAt)]

Stringify(list) == <<"json", [i \in 1..Len(list) |-> EventToJSON(list[i])]>>

EventFromJSON(j) ==
  [id        |-> j.id,
   hostId    |-> j.hostId,
   hostName  |-> j.hostName,
   title     |-> j.title,
   rsvpCount |-> j.rsvpCount,
   rsvpList  |-> j.rsvpList,
   dateTime  |-> DateFromJSON(j.dateTime),
   createdAt |-> DateFromJSON(j.createdAt),
   updatedAt |-> DateFromJSON(j.updatedAt)]

ParseCached(blob) == [i \in 1..Len(blob[2]) |-> EventFromJSON(blob[2][i])]

NoBlob == <<"null">>

\* a stored string JSON.parse throws on
Corrupt == <<"garbage">>

\* ------------------------------------------------------------ feed filter
\* Strings are sequences of characters.
Whitespace == {" "}

toLowerCase(str) ==
  [i \in 1..Len(str) |-> IF str[i] = "A" THEN "a"
                          ELSE IF str[i] = "B" THEN "b" ELSE str[i]]

\* String.prototype.trim
RECURSIVE trimStart(_)
trimStart(str) ==
  IF str # <<>> /\ Head(str) \in Whitespace THEN trimStart(Tail(str)) ELSE str

RECURSIVE trimEnd(_)
trimEnd(str) ==
  IF str # <<>> /\ str[Len(str)] \in Whitespace
  THEN trimEnd(SubSeq(str, 1, Len(str) - 1)) ELSE str

trim(str) == trimEnd(trimStart(str))

\* String.prototype.includes
includes(str, searchString) ==
  \E k \in 0..(Len(str) - Len(searchString)) :
    SubSeq(str, k + 1, k + Len(searchString)) = searchString

\* filters.type / filters.difficulty when nothing is selected
Null == "null"

\* filters.dateRange is <<>> for null, <<start, end>> otherwise
SearchFilter(list, searchQuery) ==
  IF trim(searchQuery) # <<>>
  THEN SelectSeq(list, LAMBDA event :
         \/ includes(toLowerCase(event.title), toLowerCase(searchQuery))
         \/ includes(toLowerCase(event.description), toLowerCase(searchQuery))
         \/ includes(toLowerCase(event.location.address),
                     toLowerCase(searchQuery)))
  ELSE list

TypeFilter(list, type) ==
  IF type # Null THEN SelectSeq(list, LAMBDA event : event.type = type)
  ELSE list

DifficultyFilter(list, difficulty) ==
  IF difficulty # Null
  THEN SelectSeq(list, LAMBDA event : event.difficulty = difficulty)
  ELSE list

\* a range filter with exclusive bounds
DateRangeFilterExclusive(list, dateRange) ==
  IF dateRange # <<>>
  THEN SelectSeq(list, LAMBDA event :
         event.dateTime > dateRange[1] /\ event.dateTime < dateRange[2])
  ELSE list

DateRangeFilter(list, dateRange) ==
  IF dateRange # <<>>
  THEN SelectSeq(list, LAMBDA event :
         event.dateTime >= dateRange[1] /\ event.dateTime <= dateRange[2])
  ELSE list

Reverse(list) == [i \in 1..Len(list) |-> list[Len(list) + 1 - i]]

\* the same projection, showing the latest event first
ApplyFiltersLatestFirst(list, searchQuery, filters) ==
  Reverse(DateRangeFilter(
            DifficultyFilter(
              TypeFilter(SearchFilter(list, searchQuery), filters.type),
              filters.difficulty),
            filters.dateRange))

\* the value the filter effect of EventsFeed passes to setFilteredEvents
ApplyFilters(list, searchQuery, filters) ==
  DateRangeFilter(
    DifficultyFilter(
      TypeFilter(SearchFilter(list, searchQuery), filters.type),
      filters.difficulty),
    filters.dateRange)

\* ------------------------------------------------------------------ init
\* user.displayName of the session user
displayName(u) == IF u = "u1" THEN "Olga" ELSE "Uma"

\* the title typed into the create form
EventTitle == "Yoga at dawn"

\* the document createEvent writes, as stored
NewEventDoc(host, dt, now) ==
  [deleted   |-> FALSE,
   title     |-> EventTitle,
   hostId    |-> host,
   hostName  |-> displayName(host),
   rsvpCount |-> 0,
   rsvpList  |-> <<>>,
   dateTime  |-> TimestampFromDate(dt),
   createdAt |-> TimestampFromDate(now),
   updatedAt |-> TimestampFromDate(now)]

Tombstone == [deleted |-> TRUE]

NoCall == [id |-> "-", uid |-> NoUser, list |-> <<>>, count |-> 0, at |-> 0,
           phase |-> "none", clean |-> FALSE, wasMember |-> FALSE]

Ok == [op |-> "-", id |-> "-", msg |-> "ok"]

\* the EventsFeed screen is not on display
NoFeed == [shown |-> FALSE]

\* no FirebaseService read has returned yet
NoFetch == <<"none">>

\* no event screen is mounted
NoCard == [shown |-> FALSE]

\* no utility function is being called
NoProbe == [fn |-> "none"]

\* `null`, as the session user and as the AsyncStorage entry 'user'
NoSession == [uid |-> NoUser, role |-> "-", displayName |-> "-"]

\* no AuthProvider operation has been called
NoOp == [op |-> "none", pc |-> "done"]

\* AuthProvider of a signed-out device with nothing in flight
AuthAtRest ==
  /\ authUser = NoUser
  /\ userDocs = <<>>
  /\ sessionUser = NoSession
  /\ persisted = NoSession
  /\ cbs = <<>>
  /\ authCall = NoOp

Error(op, id, msg) == [op |-> op, id |-> id, msg |-> msg]

\* what an earlier session left in the cache: event e1, as it was before
\* its host moved it
EarlierMirror ==
  Stringify(<<DecodeDoc("e1", NewEventDoc("u1", Epoch + 2, Epoch - 1))>>)

\* Provider start on one device (c1; c2 stays switched off): the remote
\* collection is empty or holds one event made by createEvent, the cache is
\* absent or holds what an earlier session mirrored.
Init ==
  /\ store \in {<<>>, [id \in {"e1"} |-> NewEventDoc("u1", Epoch + 1, Epoch - 1)]}
  /\ comments = {}
  /\ clock = Epoch
  /\ user \in {f \in [Clients -> Users \cup {NoUser}] : f["c2"] = NoUser}
  /\ sub = [c \in Clients |-> IF c = "c1" THEN "open" ELSE "closed"]
  /\ events = [c \in Clients |-> <<>>]
  /\ loading = [c \in Clients |-> TRUE]
  /\ cache \in {f \in [Clients -> {NoBlob, EarlierMirror}] : f["c2"] = NoBlob}
  /\ cacheQ = [c \in Clients |-> <<>>]
  /\ hyd = [c \in Clients |-> <<"getItem">>]
  /\ stale = Clients
  /\ lastSnapshot = [c \in Clients |-> <<>>]
  /\ outbox = [c \in Clients |-> <<>>]
  /\ lastError = [c \in Clients |-> Ok]
  /\ lastToggle = [c \in Clients |-> NoCall]
  /\ feed = [c \in Clients |-> NoFeed]
  /\ fetched = [c \in Clients |-> NoFetch]
  /\ card = [c \in Clients |-> NoCard]
  /\ probe = NoProbe
  /\ AuthAtRest

\* Two devices with a signed-in user each, nothing cached, hydration over,
\* first snapshot not yet delivered; the collection holds one event made by
\* createEvent.
InitRSVP ==
  /\ store = [id \in {"e1"} |-> NewEventDoc("u1", Epoch + 1, Epoch - 1)]
  /\ comments = {}
  /\ clock = Epoch
  /\ user \in [Clients -> Users]
  /\ sub = [c \in Clients |-> "open"]
  /\ events = [c \in Clients |-> <<>>]
  /\ loading = [c \in Clients |-> TRUE]
  /\ cache = [c \in Clients |-> NoBlob]
  /\ cacheQ = [c \in Clients |-> <<>>]
  /\ hyd = [c \in Clients |-> <<"done">>]
  /\ stale = Clients
  /\ lastSnapshot = [c \in Clients |-> <<>>]
  /\ outbox = [c \in Clients |-> <<>>]
  /\ lastError = [c \in Clients |-> Ok]
  /\ lastToggle = [c \in Clients |-> NoCall]
  /\ feed = [c \in Clients |-> NoFeed]
  /\ fetched = [c \in Clients |-> NoFetch]
  /\ card = [c \in Clients |-> NoCard]
  /\ probe = NoProbe
  /\ AuthAtRest

\* --------------------------------------------------------- event screens
\* EventCard: `isUpcoming = eventDate > new Date()` shows the RSVP button;
\* EventDetails: `canRSVP = user && new Date(event.dateTime) > new Date()`.
\* Both are evaluated when the component renders.
Render(screen, event, u, now) ==
  [shown    |-> TRUE,
   screen   |-> screen,
   event    |-> event,
   isRSVPed |-> u # NoUser /\ Includes(event.rsvpList, u),
   button   |-> IF screen = "EventCard"
                THEN event.dateTime > now
                ELSE u # NoUser /\ event.dateTime > now]

\* the screen of client c after `events` or `user` changed: the feed renders
\* a card per listed event; EventDetails keeps its event when the list no
\* longer has it (`if (updatedEvent) setEvent(updatedEvent)`)
Rerendered(c, list, u) ==
  IF ~card[c].shown THEN card[c]
  ELSE LET i == FindIndex(list, card[c].event.id) IN
       IF i # 0 THEN Render(card[c].screen, list[i], u, clock)
       ELSE IF card[c].screen = "EventCard" THEN NoCard
       ELSE Render(card[c].screen, card[c].event, u, clock)

\* EventDetails.handleRSVP wraps its toggleRSVP call in setLoading(true) /
\* setLoading(false): the details screen renders again when the call starts
\* and when it has returned or thrown; the card of the feed does not
AroundCall(c, isRSVP) ==
  [card EXCEPT ![c] =
     IF isRSVP /\ @.shown /\ @.screen = "EventDetails"
     THEN Rerendered(c, events[c], user[c]) ELSE @]

\* ------------------------------------------------------ provider effects
\* a success callback without setLoading(false)
OnSnapshotKeepsLoading(c, eventsData) ==
  /\ sub[c] = "open"
  /\ c \in stale
  /\ events' = [events EXCEPT ![c] = eventsData]
  /\ stale' = stale \ {c}
  /\ lastSnapshot' = [lastSnapshot EXCEPT ![c] = <<eventsData>>]
  /\ lastToggle' = [lastToggle EXCEPT ![c] =
                      IF @.phase = "committed"
                      THEN [@ EXCEPT !.phase = "echoed"]
                      ELSE IF @.phase = "echoed" THEN NoCall ELSE @]
  /\ UNCHANGED <<authVars, probe, card, feed, fetched, store, comments, clock, user, sub, loading, hyd, outbox,
                 lastError>>

\* onSnapshot success callback, up to the call of cacheEvents
OnSnapshot(c, eventsData) ==
  /\ sub[c] = "open"
  /\ c \in stale
  /\ events' = [events EXCEPT ![c] = eventsData]
  /\ loading' = [loading EXCEPT ![c] = FALSE]
  /\ stale' = stale \ {c}
  /\ lastSnapshot' = [lastSnapshot EXCEPT ![c] = <<eventsData>>]
  /\ lastToggle' = [lastToggle EXCEPT ![c] =
                      IF @.phase = "committed"
                      THEN [@ EXCEPT !.phase = "echoed"]
                      ELSE IF @.phase = "echoed" THEN NoCall ELSE @]
  /\ card' = [card EXCEPT ![c] = Rerendered(c, eventsData, user[c])]
  /\ UNCHANGED <<authVars, probe, feed, fetched, store, comments, clock, user, sub, hyd,
                 outbox, lastError>>

\* onSnapshot success callback; the setItem of cacheEvents stays in flight
Deliver(c) ==
  /\ Len(cacheQ[c]) < MaxCacheQ
  /\ LET eventsData == DecodeSnapshot(store)
     IN  /\ OnSnapshot(c, eventsData)
         /\ cacheQ' = [cacheQ EXCEPT ![c] = Append(@, Stringify(eventsData))]
  /\ UNCHANGED cache

\* onSnapshot success callback whose setItem is done before the device's
\* next step
DeliverMirrored(c) ==
  /\ cacheQ[c] = <<>>
  /\ LET eventsData == DecodeSnapshot(store)
     IN  /\ OnSnapshot(c, eventsData)
         /\ cache' = [cache EXCEPT ![c] = Stringify(eventsData)]
  /\ UNCHANGED cacheQ

\* cacheEvents: one pending AsyncStorage.setItem completes
CacheWrite(c) ==
  /\ \E i \in 1..Len(cacheQ[c]) :
       /\ cache' = [cache EXCEPT ![c] = cacheQ[c][i]]
       /\ cacheQ' = [cacheQ EXCEPT ![c] =
                       SubSeq(@, 1, i - 1) \o SubSeq(@, i + 1, Len(@))]
  /\ UNCHANGED <<authVars, probe, card, feed, fetched, store, comments, clock, user, sub, events, loading, hyd, stale,
                 lastSnapshot, outbox, lastError, lastToggle>>

\* loadCachedEvents: AsyncStorage.getItem answers
HydrateRead(c) ==
  /\ hyd[c] = <<"getItem">>
  /\ hyd' = [hyd EXCEPT ![c] = <<"got", cache[c]>>]
  /\ UNCHANGED <<authVars, probe, card, feed, fetched, store, comments, clock, user, sub, events, loading, cache, cacheQ,
                 stale, lastSnapshot, outbox, lastError, lastToggle>>

\* a continuation whose catch empties the list
HydrateApplyClearsOnFailure(c) ==
  /\ hyd[c][1] = "got"
  /\ hyd' = [hyd EXCEPT ![c] = <<"done">>]
  /\ events' = [events EXCEPT ![c] =
                  IF hyd[c][2] = NoBlob THEN @
                  ELSE IF hyd[c][2] = Corrupt THEN <<>>
                  ELSE ParseCached(hyd[c][2])]
  /\ UNCHANGED <<authVars, probe, card, feed, fetched, store, comments, clock, user, sub, loading, cache, cacheQ, stale,
                 lastSnapshot, outbox, lastError, lastToggle>>

\* loadCachedEvents: the continuation after the await
HydrateApply(c) ==
  /\ hyd[c][1] = "got"
  /\ hyd' = [hyd EXCEPT ![c] = <<"done">>]
  /\ events' = [events EXCEPT ![c] =
                  IF hyd[c][2] \in {NoBlob, Corrupt}
                  THEN @ ELSE ParseCached(hyd[c][2])]
  /\ card' = [card EXCEPT ![c] = Rerendered(c, events'[c], user[c])]
  /\ UNCHANGED <<authVars, probe, feed, fetched, store, comments, clock, user, sub, loading, cache, cacheQ, stale,
                 lastSnapshot, outbox, lastError, lastToggle>>

\* loadCachedEvents: AsyncStorage.getItem rejects; the catch logs it
HydrateFails(c) ==
  /\ hyd[c] = <<"getItem">>
  /\ hyd' = [hyd EXCEPT ![c] = <<"done">>]
  /\ UNCHANGED <<authVars, probe, card, feed, fetched, store, comments, clock, user, sub, events, loading, cache, cacheQ,
                 stale, lastSnapshot, outbox, lastError, lastToggle>>

\* an error callback that also empties the list
SubscriptionErrorClearsList(c) ==
  /\ sub[c] = "open"
  /\ sub' = [sub EXCEPT ![c] = "failed"]
  /\ loading' = [loading EXCEPT ![c] = FALSE]
  /\ events' = [events EXCEPT ![c] = <<>>]
  /\ UNCHANGED <<authVars, probe, card, feed, fetched, store, comments, clock, user, cache, cacheQ, hyd, stale,
                 lastSnapshot, outbox, lastError, lastToggle>>

\* onSnapshot error callback; the backend has ended the listener
SubscriptionError(c) ==
  /\ sub[c] = "open"
  /\ sub' = [sub EXCEPT ![c] = "failed"]
  /\ loading' = [loading EXCEPT ![c] = FALSE]
  /\ UNCHANGED <<authVars, probe, card, feed, fetched, store, comments, clock, user, events, cache, cacheQ, hyd, stale,
                 lastSnapshot, outbox, lastError, lastToggle>>

refreshEvents(c) ==
  /\ loading' = [loading EXCEPT ![c] = TRUE]
  /\ UNCHANGED <<authVars, probe, card, feed, fetched, store, comments, clock, user, sub, events, cache, cacheQ, hyd,
                 stale, lastSnapshot, outbox, lastError, lastToggle>>

\* cleanup of the subscription effect when the provider unmounts: unsubscribe()
Unmount(c) ==
  /\ sub[c] # "closed"
  /\ sub' = [sub EXCEPT ![c] = "closed"]
  /\ UNCHANGED <<authVars, probe, card, feed, fetched, store, comments, clock, user, events, loading, cache, cacheQ,
                 hyd, stale, lastSnapshot, outbox, lastError, lastToggle>>

\* ---------------------------------------------------------------- session
\* AuthContext: onAuthStateChanged reports a signed-in user, setUser(user)
SignIn(c, u) ==
  /\ user[c] = NoUser
  /\ user' = [user EXCEPT ![c] = u]
  /\ card' = [card EXCEPT ![c] = Rerendered(c, events[c], u)]
  /\ UNCHANGED <<authVars, probe, feed, fetched, store, comments, clock, sub, events, loading, cache, cacheQ,
                 hyd, stale, lastSnapshot, outbox, lastError, lastToggle>>

\* AuthContext.signOut: firebaseSignOut, then setUser(null)
SignOut(c) ==
  /\ user[c] # NoUser
  /\ user' = [user EXCEPT ![c] = NoUser]
  /\ card' = [card EXCEPT ![c] = Rerendered(c, events[c], NoUser)]
  /\ UNCHANGED <<authVars, probe, feed, fetched, store, comments, clock, sub, events, loading, cache, cacheQ,
                 hyd, stale, lastSnapshot, outbox, lastError, lastToggle>>

\* --------------------------------------------------------- client calls
\* an operation that throws before it reaches the backend
Throws(c, op, id, msg) ==
  /\ lastError' = [lastError EXCEPT ![c] = Error(op, id, msg)]
  /\ card' = AroundCall(c, op = "toggleRSVP")
  /\ UNCHANGED <<authVars, probe, feed, fetched, store, comments, clock, user, sub, events, loading, cache, cacheQ,
                 hyd, stale, lastSnapshot, outbox, lastToggle>>

\* an optimistic variant: the write is also applied to the in-memory list
PatchLocally(list, w) ==
  LET kept == SelectSeq(list, LAMBDA ev : ~(w.kind = "deleteDoc" /\ ev.id = w.id))
  IN  [i \in 1..Len(kept) |->
         IF kept[i].id = w.id /\ w.kind \in {"arrayUnion", "arrayRemove"}
         THEN [kept[i] EXCEPT !.rsvpCount = w.rsvpCount,
                  !.rsvpList = IF w.kind = "arrayUnion"
                               THEN arrayUnion(@, w.uid)
                               ELSE arrayRemove(@, w.uid)]
         ELSE kept[i]]

IssuesOptimistically(c, w) ==
  /\ clock < Epoch + MaxCalls
  /\ Len(outbox[c]) < MaxOutbox
  /\ clock' = clock + 1
  /\ outbox' = [outbox EXCEPT ![c] = Append(@, w)]
  /\ events' = [events EXCEPT ![c] = PatchLocally(@, w)]
  /\ card' = AroundCall(c, w.kind \in {"arrayUnion", "arrayRemove"})
  /\ UNCHANGED <<authVars, probe, feed, fetched, store, comments, user, sub, loading, cache, cacheQ, hyd, stale,
                 lastSnapshot, lastError>>

\* an operation that hands one write to the backend and awaits the answer
Issues(c, w) ==
  /\ clock < Epoch + MaxCalls
  /\ Len(outbox[c]) < MaxOutbox
  /\ clock' = clock + 1
  /\ outbox' = [outbox EXCEPT ![c] = Append(@, w)]
  /\ card' = AroundCall(c, w.kind \in {"arrayUnion", "arrayRemove"})
  /\ UNCHANGED <<authVars, probe, feed, fetched, store, comments, user, sub, events, loading, cache, cacheQ, hyd,
                 stale, lastSnapshot, lastError>>

Write(kind, id, uid, count, dt, now) ==
  [kind |-> kind, id |-> id, uid |-> uid, rsvpCount |-> count,
   dateTime |-> dt, updatedAt |-> now]

\* the payload of the updateDoc call of each branch of toggleRSVP
RemoveRSVPWriteKeepsCount(event, uid, now) ==
  Write("arrayRemove", event.id, uid, event.rsvpCount, 0, now)

AddRSVPWriteKeepsCount(event, uid, now) ==
  Write("arrayUnion", event.id, uid, event.rsvpCount, 0, now)

RemoveRSVPWrite(event, uid, now) ==
  Write("arrayRemove", event.id, uid, event.rsvpCount - 1, 0, now)

AddRSVPWrite(event, uid, now) ==
  Write("arrayUnion", event.id, uid, event.rsvpCount + 1, 0, now)

\* toggleRSVP without the `if (!user)` check
toggleRSVPUnchecked(c, eventId) ==
  LET i == FindIndex(events[c], eventId) IN
  IF i = 0
  THEN Throws(c, "toggleRSVP", eventId, "Event not found")
  ELSE LET event == events[c][i]
           isRSVPed == Includes(event.rsvpList, user[c])
       IN  /\ Issues(c, IF isRSVPed
                         THEN RemoveRSVPWrite(event, user[c], clock)
                         ELSE AddRSVPWrite(event, user[c], clock))
           /\ lastToggle' = [lastToggle EXCEPT ![c] =
                 [id |-> eventId, uid |-> user[c],
                  list |-> event.rsvpList, count |-> event.rsvpCount,
                  at |-> clock, phase |-> "issued", clean |-> FALSE,
                  wasMember |-> FALSE]]

\* toggleRSVP that takes an event missing from the list for one nobody joined
toggleRSVPAddsWhenMissing(c, eventId) ==
  IF user[c] = NoUser
  THEN Throws(c, "toggleRSVP", eventId, "User must be logged in")
  ELSE LET i == FindIndex(events[c], eventId)
           event == IF i = 0
                    THEN [id |-> eventId, rsvpCount |-> 0, rsvpList |-> <<>>]
                    ELSE events[c][i]
           isRSVPed == Includes(event.rsvpList, user[c])
       IN  /\ Issues(c, IF isRSVPed
                         THEN RemoveRSVPWrite(event, user[c], clock)
                         ELSE AddRSVPWrite(event, user[c], clock))
           /\ lastToggle' = [lastToggle EXCEPT ![c] =
                 [id |-> eventId, uid |-> user[c],
                  list |-> event.rsvpList, count |-> event.rsvpCount,
                  at |-> clock, phase |-> "issued", clean |-> FALSE,
                  wasMember |-> FALSE]]

toggleRSVP(c, eventId) ==
  IF user[c] = NoUser
  THEN Throws(c, "toggleRSVP", eventId, "User must be logged in")
  ELSE LET i == FindIndex(events[c], eventId) IN
       IF i = 0
       THEN Throws(c, "toggleRSVP", eventId, "Event not found")
       ELSE LET event == events[c][i]
                isRSVPed == Includes(event.rsvpList, user[c])
            IN  /\ Issues(c, IF isRSVPed
                              THEN RemoveRSVPWrite(event, user[c], clock)
                              ELSE AddRSVPWrite(event, user[c], clock))
                /\ lastToggle' = [lastToggle EXCEPT ![c] =
                      [id |-> eventId, uid |-> user[c],
                       list |-> event.rsvpList, count |-> event.rsvpCount,
                       at |-> clock, phase |-> "issued", clean |-> FALSE,
                       wasMember |-> FALSE]]

\* createEvent without the role check
createEventAnyRole(c, dt) ==
  IF user[c] = NoUser
  THEN Throws(c, "createEvent", "-", "User must be logged in")
  ELSE /\ Issues(c, Write("addDoc", "-", user[c], 0, dt, clock))
       /\ UNCHANGED lastToggle

createEvent(c, dt) ==
  IF user[c] = NoUser
  THEN Throws(c, "createEvent", "-", "User must be logged in")
  ELSE IF Role(user[c]) # "organizer"
  THEN Throws(c, "createEvent", "-", "Only organizers can create events")
  ELSE /\ Issues(c, Write("addDoc", "-", user[c], 0, dt, clock))
       /\ UNCHANGED lastToggle

updateEvent(c, eventId, dt) ==
  IF user[c] = NoUser
  THEN Throws(c, "updateEvent", eventId, "User must be logged in")
  ELSE /\ Issues(c, Write("updateDoc", eventId, user[c], 0, dt, clock))
       /\ UNCHANGED lastToggle

deleteEvent(c, eventId) ==
  IF user[c] = NoUser
  THEN Throws(c, "deleteEvent", eventId, "User must be logged in")
  ELSE /\ Issues(c, Write("deleteDoc", eventId, user[c], 0, 0, clock))
       /\ UNCHANGED lastToggle

addComment(c, eventId) ==
  IF user[c] = NoUser
  THEN Throws(c, "addComment", eventId, "User must be logged in")
  ELSE /\ Issues(c, Write("addComment", eventId, user[c], 0, 0, clock))
       /\ UNCHANGED lastToggle

\* FirebaseService.getEvents: one read of the ordered collection, or the
\* rethrown error of getDocs
getEvents(c) ==
  \/ /\ fetched' = [fetched EXCEPT ![c] =
          LET ids == OrderedIds(store, LiveIds(store))
          IN  <<"events", [i \in 1..Len(ids) |->
                             ServiceDecodeDoc(ids[i], store[ids[i]])]>>]
     /\ lastError' = [lastError EXCEPT ![c] = Ok]
     /\ UNCHANGED <<authVars, probe, card, store, comments, clock, user, sub, events, loading, cache,
                    cacheQ, hyd, stale, lastSnapshot, outbox, lastToggle, feed>>
  \/ /\ Throws(c, "getEvents", "-", "backend error")

\* FirebaseService.getEvent: the decoded document, null when it does not
\* exist, or the rethrown error of getDoc
getEvent(c, eventId) ==
  \/ /\ fetched' = [fetched EXCEPT ![c] =
          IF eventId \in LiveIds(store)
          THEN <<"event", ServiceDecodeDoc(eventId, store[eventId])>>
          ELSE <<"null">>]
     /\ lastError' = [lastError EXCEPT ![c] = Ok]
     /\ UNCHANGED <<authVars, probe, card, store, comments, clock, user, sub, events, loading, cache,
                    cacheQ, hyd, stale, lastSnapshot, outbox, lastToggle, feed>>
  \/ /\ Throws(c, "getEvent", eventId, "backend error")

\* ------------------------------------------------------------ feed screen
NoFilters == [type |-> Null, difficulty |-> Null, dateRange |-> <<>>]

\* the screen's state once its filter effect has run
FeedState(c, searchQuery, filters) ==
  [shown          |-> TRUE,
   searchQuery    |-> searchQuery,
   filters        |-> filters,
   filteredEvents |-> ApplyFilters(events[c], searchQuery, filters)]

\* EventsFeed is shown to a signed-in user: first render and filter effect
EventsFeed(c) ==
  /\ user[c] # NoUser
  /\ ~feed[c].shown
  /\ feed' = [feed EXCEPT ![c] = FeedState(c, <<>>, NoFilters)]
  /\ UNCHANGED <<authVars, probe, card, store, comments, clock, user, sub, events, loading, cache,
                 cacheQ, hyd, stale, lastSnapshot, outbox, lastError,
                 lastToggle, fetched>>

\* the search box changes (onChangeText), then the filter effect
setSearchQuery(c, searchQuery) ==
  /\ feed[c].shown
  /\ feed' = [feed EXCEPT ![c] = FeedState(c, searchQuery, @.filters)]
  /\ UNCHANGED <<authVars, probe, card, store, comments, clock, user, sub, events, loading, cache,
                 cacheQ, hyd, stale, lastSnapshot, outbox, lastError,
                 lastToggle, fetched>>

\* FilterModal applies or clears its filters (onApplyFilters), then the filter
\* effect
setFilters(c, filters) ==
  /\ feed[c].shown
  /\ feed' = [feed EXCEPT ![c] = FeedState(c, @.searchQuery, filters)]
  /\ UNCHANGED <<authVars, probe, card, store, comments, clock, user, sub, events, loading, cache,
                 cacheQ, hyd, stale, lastSnapshot, outbox, lastError,
                 lastToggle, fetched>>

\* --------------------------------------------------------------- backend
\* whether the backend can apply the write to the collection as it stands
Applicable(st, w) ==
  CASE w.kind \in {"arrayUnion", "arrayRemove", "updateDoc"} ->
         w.id \in LiveIds(st)
    [] w.kind = "addDoc" -> EventIds \ DOMAIN st # {}
    [] OTHER -> TRUE

\* the id addDoc assigns: one never used before
FreshId(st) == CHOOSE id \in EventIds \ DOMAIN st :
                 \A other \in EventIds \ DOMAIN st : IdRank(id) <= IdRank(other)

Put(st, id, data) == [x \in DOMAIN st \cup {id} |-> IF x = id THEN data ELSE st[x]]

\* the 'events' collection after the backend has applied one write
ApplyWrite(st, w) ==
  CASE w.kind = "arrayUnion" ->
         [st EXCEPT ![w.id] =
            [@ EXCEPT !.rsvpList = arrayUnion(@, w.uid),
                      !.rsvpCount = w.rsvpCount,
                      !.updatedAt = TimestampFromDate(w.updatedAt)]]
    [] w.kind = "arrayRemove" ->
         [st EXCEPT ![w.id] =
            [@ EXCEPT !.rsvpList = arrayRemove(@, w.uid),
                      !.rsvpCount = w.rsvpCount,
                      !.updatedAt = TimestampFromDate(w.updatedAt)]]
    [] w.kind = "updateDoc" ->
         [st EXCEPT ![w.id] =
            [@ EXCEPT !.dateTime = TimestampFromDate(w.dateTime),
                      !.updatedAt = TimestampFromDate(w.updatedAt)]]
    [] w.kind = "deleteDoc" ->
         IF w.id \in DOMAIN st THEN [st EXCEPT ![w.id] = Tombstone] ELSE st
    [] w.kind = "addDoc" ->
         Put(st, FreshId(st), NewEventDoc(w.uid, w.dateTime, w.updatedAt))
    [] OTHER -> st

\* does the stored document carry the RSVP fields the call read?
SeenIsStored(st, call) ==
  /\ call.id \in LiveIds(st)
  /\ st[call.id].rsvpList = call.list
  /\ st[call.id].rsvpCount = call.count

\* bookkeeping of the calls awaiting their echo, when write w is answered
AfterAnswer(c, w, ok) ==
  [d \in Clients |->
     LET call == lastToggle[d] IN
     IF d = c /\ call.phase = "issued" /\ call.at = w.updatedAt
     THEN [call EXCEPT !.phase = IF ok THEN "committed" ELSE "rejected",
                       !.clean = ok /\ SeenIsStored(store, call),
                       !.wasMember = /\ ok
                                     /\ Includes(store[w.id].rsvpList, w.uid)]
     ELSE IF ok /\ call.phase = "committed" /\ call.id = w.id
     THEN [call EXCEPT !.clean = FALSE]
     ELSE call]

\* the backend applies the oldest write of client c and answers it
Commit(c) ==
  /\ outbox[c] # <<>>
  /\ LET w == Head(outbox[c]) IN
       /\ Applicable(store, w)
       /\ store' = ApplyWrite(store, w)
       /\ comments' = IF w.kind = "addComment"
                      THEN comments \cup {[eventId |-> w.id, userId |-> w.uid,
                                           createdAt |-> w.updatedAt]}
                      ELSE comments
       /\ stale' = IF DecodeSnapshot(store') # DecodeSnapshot(store)
                   THEN Clients ELSE stale
       /\ lastToggle' = AfterAnswer(c, w, TRUE)
  /\ outbox' = [outbox EXCEPT ![c] = Tail(@)]
  /\ lastError' = [lastError EXCEPT ![c] = Ok]
  /\ card' = AroundCall(c, Head(outbox[c]).kind \in {"arrayUnion", "arrayRemove"})
  /\ UNCHANGED <<authVars, probe, feed, fetched, clock, user, sub, events, loading, cache, cacheQ, hyd,
                 lastSnapshot>>

\* the backend refuses the oldest write of client c (missing document,
\* permission denied, network): the call rethrows error.message
Reject(c) ==
  /\ outbox[c] # <<>>
  /\ lastToggle' = AfterAnswer(c, Head(outbox[c]), FALSE)
  /\ outbox' = [outbox EXCEPT ![c] = Tail(@)]
  /\ lastError' = [lastError EXCEPT ![c] = Error("-", "-", "backend error")]
  /\ card' = AroundCall(c, Head(outbox[c]).kind \in {"arrayUnion", "arrayRemove"})
  /\ UNCHANGED <<authVars, probe, feed, fetched, store, comments, clock, user, sub, events, loading, cache, cacheQ,
                 hyd, stale, lastSnapshot>>

\* ------------------------------------------------------------------ next
\* a call made while the session's budget of calls lasts
InSession == clock < Epoch + SessionCalls

\* everything one device does, and the backend's answers to it
Next ==
  \/ Deliver("c1")
  \/ CacheWrite("c1")
  \/ HydrateRead("c1")
  \/ HydrateApply("c1")
  \/ \E e \in EventIds : InSession /\ toggleRSVP("c1", e)
  \/ \E dt \in DateTimes : InSession /\ createEvent("c1", dt)
  \/ \E e \in EventIds, dt \in DateTimes : InSession /\ updateEvent("c1", e, dt)
  \/ \E e \in EventIds : InSession /\ deleteEvent("c1", e)
  \/ \E e \in EventIds : InSession /\ addComment("c1", e)
  \/ Commit("c1")
  \/ Reject("c1")

Spec == Init /\ [][Next]_vars

\* Provider start on one device whose user is an organizer; the cache may
\* also hold a string that does not parse.
InitSync ==
  /\ store \in {<<>>, [id \in {"e1"} |-> NewEventDoc("u1", Epoch + 1, Epoch - 1)]}
  /\ comments = {}
  /\ clock = Epoch
  /\ user = [c \in Clients |-> IF c = "c1" THEN "u1" ELSE NoUser]
  /\ sub = [c \in Clients |-> IF c = "c1" THEN "open" ELSE "closed"]
  /\ events = [c \in Clients |-> <<>>]
  /\ loading = [c \in Clients |-> TRUE]
  /\ cache \in {f \in [Clients -> {NoBlob, EarlierMirror, Corrupt}] :
                  f["c2"] = NoBlob}
  /\ cacheQ = [c \in Clients |-> <<>>]
  /\ hyd = [c \in Clients |-> <<"getItem">>]
  /\ stale = Clients
  /\ lastSnapshot = [c \in Clients |-> <<>>]
  /\ outbox = [c \in Clients |-> <<>>]
  /\ lastError = [c \in Clients |-> Ok]
  /\ lastToggle = [c \in Clients |-> NoCall]
  /\ feed = [c \in Clients |-> NoFeed]
  /\ fetched = [c \in Clients |-> NoFetch]
  /\ card = [c \in Clients |-> NoCard]
  /\ probe = NoProbe
  /\ AuthAtRest

\* the provider's effects and callbacks on that device, with the failures of
\* the cache read and of the subscription
NextSync ==
  \/ Deliver("c1")
  \/ SubscriptionError("c1")
  \/ CacheWrite("c1")
  \/ HydrateRead("c1")
  \/ HydrateFails("c1")
  \/ HydrateApply("c1")
  \/ refreshEvents("c1")
  \/ \E dt \in DateTimes : InSession /\ createEvent("c1", dt)
  \/ \E e \in EventIds, dt \in DateTimes : InSession /\ updateEvent("c1", e, dt)
  \/ Commit("c1")
  \/ Reject("c1")

SpecSync == InitSync /\ [][NextSync]_vars

\* The same, with what the platform does on its own sooner or later: the
\* backend delivers a snapshot it owes and answers a write it holds,
\* AsyncStorage completes a getItem or setItem it was handed, and the
\* continuation of loadCachedEvents runs. Calls made by the user and
\* subscription errors may never happen.
SpecSyncLive ==
  /\ SpecSync
  /\ WF_vars(Deliver("c1"))
  /\ WF_vars(CacheWrite("c1"))
  /\ WF_vars(HydrateRead("c1") \/ HydrateFails("c1"))
  /\ WF_vars(HydrateApply("c1"))
  /\ WF_vars(Commit("c1") \/ Reject("c1"))

\* Sessions on one device: the app is running with a user signed in, the
\* provider is mounted and its hydration is over; the collection holds one
\* event.
InitSession ==
  /\ store = [id \in {"e1"} |-> NewEventDoc("u1", Epoch + 1, Epoch - 1)]
  /\ comments = {}
  /\ clock = Epoch
  /\ user \in {f \in [Clients -> Users \cup {NoUser}] :
                 f["c1"] # NoUser /\ f["c2"] = NoUser}
  /\ sub = [c \in Clients |-> IF c = "c1" THEN "open" ELSE "closed"]
  /\ events = [c \in Clients |-> <<>>]
  /\ loading = [c \in Clients |-> TRUE]
  /\ cache = [c \in Clients |-> NoBlob]
  /\ cacheQ = [c \in Clients |-> <<>>]
  /\ hyd = [c \in Clients |-> <<"done">>]
  /\ stale = Clients
  /\ lastSnapshot = [c \in Clients |-> <<>>]
  /\ outbox = [c \in Clients |-> <<>>]
  /\ lastError = [c \in Clients |-> Ok]
  /\ lastToggle = [c \in Clients |-> NoCall]
  /\ feed = [c \in Clients |-> NoFeed]
  /\ fetched = [c \in Clients |-> NoFetch]
  /\ card = [c \in Clients |-> NoCard]
  /\ probe = NoProbe
  /\ AuthAtRest

NextSession ==
  \/ \E u \in Users : SignIn("c1", u)
  \/ SignOut("c1")
  \/ Unmount("c1")
  \/ DeliverMirrored("c1")
  \/ SubscriptionError("c1")
  \/ InSession /\ toggleRSVP("c1", "e1")
  \/ Commit("c1")
  \/ Reject("c1")

SpecSession == InitSession /\ [][NextSession]_vars

\* a stored document whose body carries a field named id
WithBodyId(data, bodyId) ==
  [f \in DOMAIN data \cup {"id"} |-> IF f = "id" THEN bodyId ELSE data[f]]

\* the documents a collection can hold under one id: made by createEvent, or
\* with an id field in the body (written through updateDoc with a whole Event
\* as `updates`, or by another writer)
DocsAt(dt) ==
  {NewEventDoc("u1", dt, Epoch - 1)} \cup
  {WithBodyId(NewEventDoc("u1", dt, Epoch - 1), b) : b \in EventIds}

\* Reads of a collection of one or two such documents, by the provider's
\* subscription and through FirebaseService, on one device.
InitDecode ==
  /\ store \in [{"e1"} -> DocsAt(Epoch + 1)] \cup
               {f \in [EventIds -> DocsAt(Epoch + 1) \cup DocsAt(Epoch + 2)] :
                  f["e1"].dateTime # f["e2"].dateTime}
  /\ comments = {}
  /\ clock = Epoch
  /\ user = [c \in Clients |-> IF c = "c1" THEN "u1" ELSE NoUser]
  /\ sub = [c \in Clients |-> IF c = "c1" THEN "open" ELSE "closed"]
  /\ events = [c \in Clients |-> <<>>]
  /\ loading = [c \in Clients |-> TRUE]
  /\ cache = [c \in Clients |-> NoBlob]
  /\ cacheQ = [c \in Clients |-> <<>>]
  /\ hyd = [c \in Clients |-> <<"done">>]
  /\ stale = Clients
  /\ lastSnapshot = [c \in Clients |-> <<>>]
  /\ outbox = [c \in Clients |-> <<>>]
  /\ lastError = [c \in Clients |-> Ok]
  /\ lastToggle = [c \in Clients |-> NoCall]
  /\ feed = [c \in Clients |-> NoFeed]
  /\ fetched = [c \in Clients |-> NoFetch]
  /\ card = [c \in Clients |-> NoCard]
  /\ probe = NoProbe
  /\ AuthAtRest

NextDecode ==
  \/ DeliverMirrored("c1")
  \/ getEvents("c1")
  \/ \E e \in EventIds : getEvent("c1", e)
  \/ \E e \in EventIds : InSession /\ deleteEvent("c1", e)
  \/ Commit("c1")
  \/ Reject("c1")

SpecDecode == InitDecode /\ [][NextDecode]_vars

\* Events as the feed reads them: the fields the filter looks at
FeedEvent(id, title, description, address, type, difficulty, dateTime) ==
  [id |-> id, title |-> title, description |-> description,
   location |-> [address |-> address], type |-> type,
   difficulty |-> difficulty, dateTime |-> dateTime]

Published ==
  <<FeedEvent("e1", <<"A", "b">>, <<>>, <<"b", " ", "a">>,
              "Yoga", "Beginner", Epoch + 1),
    FeedEvent("e2", <<"B">>, <<"a">>, <<>>, "Run", "Beginner", Epoch + 2),
    FeedEvent("e3", <<>>, <<"b", " ">>, <<"A">>, "Yoga", "Advanced", Epoch + 3)>>

\* the lists the provider can publish out of these: dateTime order is kept
PublishedLists ==
  {SelectSeq(Published, LAMBDA e : e.id \in ids) :
     ids \in SUBSET {"e1", "e2", "e3"}}

SearchQueries ==
  {<<>>, <<" ">>, <<"a">>, <<"a", "B">>, <<"b", " ">>, <<" ", "A">>}

EventTypes == {"Yoga", "Run"}

DifficultyLevels == {"Beginner", "Advanced"}

DateRanges ==
  {<<>>, <<Epoch + 1, Epoch + 2>>, <<Epoch + 2, Epoch + 3>>,
   <<Epoch + 3, Epoch + 1>>}

FilterChoices ==
  [type : EventTypes \cup {Null}, difficulty : DifficultyLevels \cup {Null},
   dateRange : DateRanges]

\* The feed screen of a signed-in user over a published list.
InitFilter ==
  /\ store = <<>>
  /\ comments = {}
  /\ clock = Epoch
  /\ user = [c \in Clients |-> IF c = "c1" THEN "u2" ELSE NoUser]
  /\ sub = [c \in Clients |-> IF c = "c1" THEN "open" ELSE "closed"]
  /\ events \in {f \in [Clients -> PublishedLists] : f["c2"] = <<>>}
  /\ loading = [c \in Clients |-> FALSE]
  /\ cache = [c \in Clients |-> NoBlob]
  /\ cacheQ = [c \in Clients |-> <<>>]
  /\ hyd = [c \in Clients |-> <<"done">>]
  /\ stale = {}
  /\ lastSnapshot = [c \in Clients |-> <<>>]
  /\ outbox = [c \in Clients |-> <<>>]
  /\ lastError = [c \in Clients |-> Ok]
  /\ lastToggle = [c \in Clients |-> NoCall]
  /\ feed = [c \in Clients |-> NoFeed]
  /\ fetched = [c \in Clients |-> NoFetch]
  /\ card = [c \in Clients |-> NoCard]
  /\ probe = NoProbe
  /\ AuthAtRest

NextFilter ==
  \/ EventsFeed("c1")
  \/ \E q \in SearchQueries : setSearchQuery("c1", q)
  \/ \E f \in FilterChoices : setFilters("c1", f)

SpecFilter == InitFilter /\ [][NextFilter]_vars

\* RSVP toggles of two devices on the shared collection
NextRSVP ==
  \/ \E c \in Clients : DeliverMirrored(c)
  \/ \E c \in Clients : toggleRSVP(c, "e1")
  \/ \E c \in Clients : Commit(c)
  \/ \E c \in Clients : Reject(c)

SpecRSVP == InitRSVP /\ [][NextRSVP]_vars

\* ------------------------------------------------------ screen scenario
Screens == {"EventCard", "EventDetails"}

\* the feed renders the card of a listed event, or the user opens its
\* details screen
ShowScreen(c, screen, eventId) ==
  /\ ~card[c].shown
  /\ FindIndex(events[c], eventId) # 0
  /\ card' = [card EXCEPT ![c] =
               Render(screen, events[c][FindIndex(events[c], eventId)],
                      user[c], clock)]
  /\ UNCHANGED <<authVars, probe, feed, fetched, store, comments, clock, user, sub,
                 events, loading, cache, cacheQ, hyd, stale, lastSnapshot, outbox,
                 lastError, lastToggle>>

\* the user scrolls the card away or leaves the details screen
HideScreen(c) ==
  /\ card[c].shown
  /\ card' = [card EXCEPT ![c] = NoCard]
  /\ UNCHANGED <<authVars, probe, feed, fetched, store, comments, clock, user, sub,
                 events, loading, cache, cacheQ, hyd, stale, lastSnapshot, outbox,
                 lastError, lastToggle>>

\* a millisecond goes by; nothing re-renders a mounted screen
TimePasses ==
  /\ clock < Epoch + MaxCalls
  /\ clock' = clock + 1
  /\ UNCHANGED <<authVars, probe, card, feed, fetched, store, comments, user, sub,
                 events, loading, cache, cacheQ, hyd, stale, lastSnapshot, outbox,
                 lastError, lastToggle>>

\* the user taps the RSVP button of the mounted screen: handleRSVP of
\* EventsFeed (onRSVP of the card) or of EventDetails
handleRSVP(c) ==
  /\ card[c].shown
  /\ card[c].button
  /\ card[c].screen = "EventDetails" => outbox[c] = <<>>   \* disabled={loading}
  /\ IF user[c] = NoUser
     THEN Throws(c, "handleRSVP", card[c].event.id, "Login Required")
     ELSE toggleRSVP(c, card[c].event.id)

\* One device, any viewer; the collection holds one event that starts now,
\* in one or in two milliseconds; the first snapshot is not yet delivered.
InitScreen ==
  /\ \E dt \in {Epoch} \cup DateTimes :
       store = [id \in {"e1"} |-> NewEventDoc("u1", dt, Epoch - 1)]
  /\ comments = {}
  /\ clock = Epoch
  /\ user \in {f \in [Clients -> Users \cup {NoUser}] : f["c2"] = NoUser}
  /\ sub = [c \in Clients |-> IF c = "c1" THEN "open" ELSE "closed"]
  /\ events = [c \in Clients |-> <<>>]
  /\ loading = [c \in Clients |-> TRUE]
  /\ cache = [c \in Clients |-> NoBlob]
  /\ cacheQ = [c \in Clients |-> <<>>]
  /\ hyd = [c \in Clients |-> <<"done">>]
  /\ stale = Clients
  /\ lastSnapshot = [c \in Clients |-> <<>>]
  /\ outbox = [c \in Clients |-> <<>>]
  /\ lastError = [c \in Clients |-> Ok]
  /\ lastToggle = [c \in Clients |-> NoCall]
  /\ feed = [c \in Clients |-> NoFeed]
  /\ fetched = [c \in Clients |-> NoFetch]
  /\ card = [c \in Clients |-> NoCard]
  /\ probe = NoProbe
  /\ AuthAtRest

NextScreen ==
  \/ DeliverMirrored("c1")
  \/ \E screen \in Screens : ShowScreen("c1", screen, "e1")
  \/ HideScreen("c1")
  \/ TimePasses
  \/ handleRSVP("c1")
  \/ Commit("c1")
  \/ Reject("c1")

SpecScreen == InitScreen /\ [][NextScreen]_vars

\* ----------------------------------------------------------- AuthProvider
Roles == {"user", "organizer"}

\* a device on which the events provider is not mounted
EventsAtRest ==
  /\ store = <<>>
  /\ comments = {}
  /\ clock = Epoch
  /\ user = [c \in Clients |-> NoUser]
  /\ sub = [c \in Clients |-> "closed"]
  /\ events = [c \in Clients |-> <<>>]
  /\ loading = [c \in Clients |-> TRUE]
  /\ cache = [c \in Clients |-> NoBlob]
  /\ cacheQ = [c \in Clients |-> <<>>]
  /\ hyd = [c \in Clients |-> <<"done">>]
  /\ stale = {}
  /\ lastSnapshot = [c \in Clients |-> <<>>]
  /\ outbox = [c \in Clients |-> <<>>]
  /\ lastError = [c \in Clients |-> Ok]
  /\ lastToggle = [c \in Clients |-> NoCall]
  /\ feed = [c \in Clients |-> NoFeed]
  /\ fetched = [c \in Clients |-> NoFetch]
  /\ card = [c \in Clients |-> NoCard]

\* the body of a 'users' document, and the User built from one
UserDoc(role, name) == [role |-> role, displayName |-> name]

SessionUser(uid, userData) ==
  [uid |-> uid, role |-> userData.role, displayName |-> userData.displayName]

\* `{ ...target, ...updates }`, and updateDoc's merge into a document
Merge(target, updates) ==
  [f \in DOMAIN target \cup DOMAIN updates |->
     IF f \in DOMAIN updates THEN updates[f] ELSE target[f]]

\* the accounts Firebase Auth knows: u2 registered before, u1 once it has
\* signed up
Registered == ({"u2"} \cup DOMAIN userDocs \cup {authUser}) \ {NoUser}

Idle == authCall.pc \in {"done", "failed"}

RemoveAt(seq, i) == [j \in 1..(Len(seq) - 1) |-> IF j < i THEN seq[j] ELSE seq[j + 1]]

\* Firebase Auth calls the onAuthStateChanged callback with firebaseUser; the
\* callback runs up to its first await: getDoc for a signed-in user,
\* AsyncStorage.removeItem (after setUser(null)) for none
Fired(fu) ==
  IF fu = NoUser
  THEN Append(cbs, [fu |-> fu, pc |-> "removeItem", value |-> NoSession])
  ELSE Append(cbs, [fu |-> fu, pc |-> "getDoc", value |-> NoSession])

\* the callback's getDoc resolves: an existing document gives the user and
\* setUser(user); a missing one is created with role 'user' (the setDoc is
\* queued behind the device's earlier writes)
CallbackGotDoc(i) ==
  /\ i \in 1..Len(cbs)
  /\ cbs[i].pc = "getDoc"
  /\ IF cbs[i].fu \in DOMAIN userDocs
     THEN LET u == SessionUser(cbs[i].fu, userDocs[cbs[i].fu]) IN
          /\ sessionUser' = u
          /\ cbs' = [cbs EXCEPT ![i] = [@ EXCEPT !.pc = "setItem", !.value = u]]
          /\ UNCHANGED userDocs
     ELSE /\ userDocs' = Put(userDocs, cbs[i].fu,
                             UserDoc("user", displayName(cbs[i].fu)))
          /\ cbs' = [cbs EXCEPT ![i] = [@ EXCEPT !.pc = "setDoc"]]
          /\ UNCHANGED sessionUser
  /\ UNCHANGED <<eventsVars, probe, authUser, persisted, authCall>>

\* the callback's setDoc of the default document has returned: the user is
\* built from the default userData (role 'user') and setUser(user)
CallbackSetDocDone(i) ==
  /\ i \in 1..Len(cbs)
  /\ cbs[i].pc = "setDoc"
  /\ LET u == SessionUser(cbs[i].fu, UserDoc("user", displayName(cbs[i].fu))) IN
       /\ sessionUser' = u
       /\ cbs' = [cbs EXCEPT ![i] = [@ EXCEPT !.pc = "setItem", !.value = u]]
  /\ UNCHANGED <<eventsVars, probe, authUser, userDocs, persisted, authCall>>

\* the callback's AsyncStorage.setItem('user', ...) is done; setLoading(false)
CallbackSetItemDone(i) ==
  /\ i \in 1..Len(cbs)
  /\ cbs[i].pc = "setItem"
  /\ persisted' = cbs[i].value
  /\ cbs' = RemoveAt(cbs, i)
  /\ UNCHANGED <<eventsVars, probe, authUser, userDocs, sessionUser, authCall>>

\* the signed-out callback's AsyncStorage.removeItem('user') is done
CallbackRemoveItemDone(i) ==
  /\ i \in 1..Len(cbs)
  /\ cbs[i].pc = "removeItem"
  /\ persisted' = NoSession
  /\ cbs' = RemoveAt(cbs, i)
  /\ UNCHANGED <<eventsVars, probe, authUser, userDocs, sessionUser, authCall>>

Call(op, pc, uid, role, updates, captured) ==
  [op |-> op, pc |-> pc, uid |-> uid, role |-> role, updates |-> updates,
   captured |-> captured]

\* signIn: signInWithEmailAndPassword is awaited
signIn(u) ==
  /\ Idle
  /\ authUser = NoUser
  /\ u \in Registered
  /\ authCall' = Call("signIn", "signIn", u, "-", <<>>, NoSession)
  /\ UNCHANGED <<eventsVars, probe, authUser, userDocs, sessionUser, persisted, cbs>>

\* ... it resolves: the auth state changes and the callback is called
signInResolved ==
  /\ authCall.op = "signIn" /\ authCall.pc = "signIn"
  /\ Len(cbs) < MaxCallbacks
  /\ authUser' = authCall.uid
  /\ cbs' = Fired(authCall.uid)
  /\ authCall' = [authCall EXCEPT !.pc = "done"]
  /\ UNCHANGED <<eventsVars, probe, userDocs, sessionUser, persisted>>

\* signUp(email, password, displayName, role):
\* createUserWithEmailAndPassword is awaited
signUp(u, role) ==
  /\ Idle
  /\ authUser = NoUser
  /\ u \notin Registered
  /\ authCall' = Call("signUp", "createUser", u, role, <<>>, NoSession)
  /\ UNCHANGED <<eventsVars, probe, authUser, userDocs, sessionUser, persisted, cbs>>

\* ... the account exists and is signed in: the callback is called; signUp
\* goes on to await updateProfile(firebaseUser, { displayName })
signUpCreated ==
  /\ authCall.op = "signUp" /\ authCall.pc = "createUser"
  /\ Len(cbs) < MaxCallbacks
  /\ authUser' = authCall.uid
  /\ cbs' = Fired(authCall.uid)
  /\ authCall' = [authCall EXCEPT !.pc = "updateProfile"]
  /\ UNCHANGED <<eventsVars, probe, userDocs, sessionUser, persisted>>

\* ... updateProfile has returned: setDoc of the user document with the
\* chosen role
signUpSetDoc ==
  /\ authCall.op = "signUp" /\ authCall.pc = "updateProfile"
  /\ userDocs' = Put(userDocs, authCall.uid,
                     UserDoc(authCall.role, displayName(authCall.uid)))
  /\ authCall' = [authCall EXCEPT !.pc = "setDoc"]
  /\ UNCHANGED <<eventsVars, probe, authUser, sessionUser, persisted, cbs>>

\* ... setDoc has returned: signUp returns firebaseUser
signUpDone ==
  /\ authCall.op = "signUp" /\ authCall.pc = "setDoc"
  /\ authCall' = [authCall EXCEPT !.pc = "done"]
  /\ UNCHANGED <<eventsVars, probe, authUser, userDocs, sessionUser, persisted, cbs>>

\* signOut: firebaseSignOut(auth) is awaited
signOut ==
  /\ Idle
  /\ authUser # NoUser
  /\ authCall' = Call("signOut", "firebaseSignOut", authUser, "-", <<>>, NoSession)
  /\ UNCHANGED <<eventsVars, probe, authUser, userDocs, sessionUser, persisted, cbs>>

\* ... it resolves: the callback is called with null and does setUser(null);
\* signOut goes on to await AsyncStorage.removeItem('user')
signOutSignedOut ==
  /\ authCall.op = "signOut" /\ authCall.pc = "firebaseSignOut"
  /\ Len(cbs) < MaxCallbacks
  /\ authUser' = NoUser
  /\ cbs' = Fired(NoUser)
  /\ sessionUser' = NoSession
  /\ authCall' = [authCall EXCEPT !.pc = "removeItem"]
  /\ UNCHANGED <<eventsVars, probe, userDocs, persisted>>

\* ... removeItem is done: setUser(null)
signOutDone ==
  /\ authCall.op = "signOut" /\ authCall.pc = "removeItem"
  /\ persisted' = NoSession
  /\ sessionUser' = NoSession
  /\ authCall' = [authCall EXCEPT !.pc = "done"]
  /\ UNCHANGED <<eventsVars, probe, authUser, userDocs, cbs>>

\* the Partial<User> objects updateProfile is called with
Updates ==
  {[displayName |-> "Nina"], [role |-> "organizer"],
   [displayName |-> "Nina", role |-> "user"]}

\* updateProfileData(updates): throws without a session user, else awaits
\* updateDoc(userRef, { ...updates, updatedAt })
updateProfileData(updates) ==
  /\ Idle
  /\ IF sessionUser.uid = NoUser
     THEN authCall' = Call("updateProfile", "failed", NoUser, "-", updates, NoSession)
     ELSE authCall' = Call("updateProfile", "updateDoc", sessionUser.uid, "-",
                           updates, sessionUser)
  /\ UNCHANGED <<eventsVars, probe, authUser, userDocs, sessionUser, persisted, cbs>>

\* ... updateDoc has returned (the session user's document exists: the
\* callback has read or created it): setUser({ ...user, ...updateData }) with
\* the user the call started with; AsyncStorage.setItem is awaited
updateProfileDataUpdated ==
  /\ authCall.op = "updateProfile" /\ authCall.pc = "updateDoc"
  /\ authCall.uid \in DOMAIN userDocs
  /\ userDocs' = [userDocs EXCEPT ![authCall.uid] = Merge(@, authCall.updates)]
  /\ sessionUser' = Merge(authCall.captured, authCall.updates)
  /\ authCall' = [authCall EXCEPT !.pc = "setItem"]
  /\ UNCHANGED <<eventsVars, probe, authUser, persisted, cbs>>

\* ... setItem is done
updateProfileDataDone ==
  /\ authCall.op = "updateProfile" /\ authCall.pc = "setItem"
  /\ persisted' = Merge(authCall.captured, authCall.updates)
  /\ authCall' = [authCall EXCEPT !.pc = "done"]
  /\ UNCHANGED <<eventsVars, probe, authUser, userDocs, sessionUser, cbs>>

\* AuthProvider on a signed-out device: account u2 was registered earlier
\* (with or without its user document), u1 has no account yet.
InitAuth ==
  /\ EventsAtRest
  /\ probe = NoProbe
  /\ authUser = NoUser
  /\ userDocs \in {<<>>} \cup
                  {[u \in {"u2"} |-> UserDoc(r, displayName("u2"))] : r \in Roles}
  /\ sessionUser = NoSession
  /\ persisted = NoSession
  /\ cbs = <<>>
  /\ authCall = NoOp

NextAuth ==
  \/ \E u \in Users : signIn(u)
  \/ signInResolved
  \/ \E u \in Users, role \in Roles : signUp(u, role)
  \/ signUpCreated
  \/ signUpSetDoc
  \/ signUpDone
  \/ signOut
  \/ signOutSignedOut
  \/ signOutDone
  \/ \E updates \in Updates : updateProfileData(updates)
  \/ updateProfileDataUpdated
  \/ updateProfileDataDone
  \/ \E i \in 1..MaxCallbacks : CallbackGotDoc(i)
  \/ \E i \in 1..MaxCallbacks : CallbackSetDocDone(i)
  \/ \E i \in 1..MaxCallbacks : CallbackSetItemDone(i)
  \/ \E i \in 1..MaxCallbacks : CallbackRemoveItemDone(i)

SpecAuth == InitAuth /\ [][NextAuth]_vars

\* ------------------------------------------------------------ dateHelpers
MsPerMinute == 1000 * 60
MsPerHour == 1000 * 60 * 60
MsPerDay == 1000 * 60 * 60 * 24

\* isEventUpcoming: eventDate.getTime() > Date.now()
isEventUpcomingInclusive(eventDate) == eventDate >= clock

isEventUpcoming(eventDate) == eventDate > clock

\* getTimeUntilEvent; the template strings are kept as their pattern and
\* their two numbers
getTimeUntilEvent(eventDate) ==
  LET timeDiff == eventDate - clock
      days     == timeDiff \div MsPerDay
      hours    == (timeDiff % MsPerDay) \div MsPerHour
      minutes  == (timeDiff % MsPerHour) \div MsPerMinute
  IN  IF timeDiff <= 0 THEN [text |-> "Event has started", a |-> 0, b |-> 0]
      ELSE IF days > 0 THEN [text |-> "${days}d ${hours}h", a |-> days, b |-> hours]
      ELSE IF hours > 0 THEN [text |-> "${hours}h ${minutes}m", a |-> hours, b |-> minutes]
      ELSE [text |-> "${minutes}m", a |-> minutes, b |-> 0]

\* event times around the current time: a day, an hour, a minute and a
\* millisecond before and after it, and the current time itself
EventDates ==
  {Epoch + 1 + d : d \in {0 - MsPerDay, 0 - MsPerHour, 0 - MsPerMinute, 0 - 1, 0, 1,
                          MsPerMinute - 1, MsPerMinute, MsPerHour - 1, MsPerHour,
                          MsPerDay - 1, MsPerDay, MsPerDay + MsPerHour}}

CallIsEventUpcoming ==
  /\ probe.fn = "dateHelpers"
  /\ probe.upcoming = <<>>
  /\ probe' = [probe EXCEPT !.upcoming = <<isEventUpcoming(probe.eventDate)>>]
  /\ UNCHANGED <<eventsVars, authVars>>

CallGetTimeUntilEvent ==
  /\ probe.fn = "dateHelpers"
  /\ probe.until = <<>>
  /\ probe' = [probe EXCEPT !.until = <<getTimeUntilEvent(probe.eventDate)>>]
  /\ UNCHANGED <<eventsVars, authVars>>

\* an event time and a current time; neither helper has been called
InitDates ==
  /\ store = <<>>
  /\ comments = {}
  /\ clock \in {Epoch, Epoch + 1, Epoch + 2}
  /\ user = [c \in Clients |-> NoUser]
  /\ sub = [c \in Clients |-> "closed"]
  /\ events = [c \in Clients |-> <<>>]
  /\ loading = [c \in Clients |-> TRUE]
  /\ cache = [c \in Clients |-> NoBlob]
  /\ cacheQ = [c \in Clients |-> <<>>]
  /\ hyd = [c \in Clients |-> <<"done">>]
  /\ stale = {}
  /\ lastSnapshot = [c \in Clients |-> <<>>]
  /\ outbox = [c \in Clients |-> <<>>]
  /\ lastError = [c \in Clients |-> Ok]
  /\ lastToggle = [c \in Clients |-> NoCall]
  /\ feed = [c \in Clients |-> NoFeed]
  /\ fetched = [c \in Clients |-> NoFetch]
  /\ card = [c \in Clients |-> NoCard]
  /\ AuthAtRest
  /\ probe \in {[fn |-> "dateHelpers", eventDate |-> d, upcoming |-> <<>>,
                  until |-> <<>>] : d \in EventDates}

NextDates ==
  \/ CallIsEventUpcoming
  \/ CallGetTimeUntilEvent

SpecDates == InitDates /\ [][NextDates]_vars

\* -------------------------------------------------------------- validation
Chars == {"u", ".", "@", " "}

Emails == UNION {[1..n -> Chars] : n \in 0..MaxEmailLen}

\* emailRegex = /^[^\s@]+@[^\s@]+\.[^\s@]+$/ : some '@' after the first
\* character and some '.' after the character that follows it and before the
\* last one, every other character being neither whitespace nor '@'
validateEmail(email) ==
  \E at \in 1..Len(email), dot \in 1..Len(email) :
    /\ email[at] = "@"
    /\ email[dot] = "."
    /\ 1 < at
    /\ at + 1 < dot
    /\ dot < Len(email)
    /\ \A k \in (1..Len(email)) \ {at} : email[k] \notin Whitespace \cup {"@"}

CallValidateEmail ==
  /\ probe.fn = "validateEmail"
  /\ probe.result = <<>>
  /\ probe' = [probe EXCEPT !.result = <<validateEmail(probe.email)>>]
  /\ UNCHANGED <<eventsVars, authVars>>

\* a string typed into the e-mail field; validateEmail has not been called
InitEmail ==
  /\ EventsAtRest
  /\ AuthAtRest
  /\ probe \in {[fn |-> "validateEmail", email |-> e, result |-> <<>>] : e \in Emails}

NextEmail == CallValidateEmail

SpecEmail == InitEmail /\ [][NextEmail]_vars

\* ================================================================ claims
StoredConsistent ==
  \A id \in LiveIds(store) : store[id].rsvpCount = Len(store[id].rsvpList)

PublishedConsistent(c) ==
  \A i \in 1..Len(events[c]) :
    events[c][i].rsvpCount = Len(events[c][i].rsvpList)

\* C1: after every committed toggleRSVP write on an event made by createEvent,
\* the stored document and every in-memory copy have rsvpCount = |rsvpList|.
C1_RsvpCountEqualsListSize ==
  /\ StoredConsistent
  /\ \A c \in Clients : PublishedConsistent(c)

\* the last toggles of the two devices were computed from the same RSVP fields
\* in back-to-back calls (neither saw the other's write) and both are committed
ConcurrentPair ==
  /\ user["c1"] # user["c2"]
  /\ \A c \in Clients : lastToggle[c].phase \in {"committed", "echoed"}
  /\ lastToggle["c1"].id = lastToggle["c2"].id
  /\ lastToggle["c1"].list = lastToggle["c2"].list
  /\ lastToggle["c1"].count = lastToggle["c2"].count
  /\ lastToggle["c1"].at - lastToggle["c2"].at \in {-1, 1}

\* C2: two different users on two devices toggle the same event from snapshots
\* that do not show each other's write; once the backend has applied both
\* writes, no device holds a snapshot with rsvpCount # |rsvpList|.
C2_ConcurrentTogglesStayConsistent ==
  ConcurrentPair => \A c \in Clients : PublishedConsistent(c)

\* C3: the stored rsvpCount of an event is never negative.
C3_RsvpCountNonNegative ==
  \A id \in LiveIds(store) : store[id].rsvpCount >= 0

\* C4: the stored rsvpList holds each user id at most once, also after an add
\* for a user who is already in it.
C4_NoDuplicateMembership ==
  \A id \in LiveIds(store) :
    \A i, j \in 1..Len(store[id].rsvpList) :
      i # j => store[id].rsvpList[i] # store[id].rsvpList[j]

\* an add decided on a stale snapshot was committed on a list that already
\* held the user
C4_Witness ==
  \E c \in Clients :
    /\ lastToggle[c].phase = "committed"
    /\ ~Includes(lastToggle[c].list, lastToggle[c].uid)
    /\ lastToggle[c].wasMember

\* the step is a call of toggleRSVP(e) on device c by a signed-in user who
\* finds the event in the in-memory list, as a member (TRUE) or not (FALSE)
ToggleCall(c, e, member) ==
  /\ toggleRSVP(c, e)
  /\ user[c] # NoUser
  /\ FindIndex(events[c], e) # 0
  /\ Includes(events[c][FindIndex(events[c], e)].rsvpList, user[c]) = member

\* the step hands exactly one write to the backend, from device c, and changes
\* neither the collection nor another device's pending writes
IssuesOneWrite(c) ==
  /\ outbox'[c] = Append(outbox[c], outbox'[c][Len(outbox'[c])])
  /\ \A d \in Clients \ {c} : outbox'[d] = outbox[d]
  /\ store' = store

LastWrite(c) == outbox'[c][Len(outbox'[c])]

InMemory(c, id) == events[c][FindIndex(events[c], id)]

WasAdd(t) == ~Includes(t.list, t.uid)

\* the call's write is committed and echoed, and was the only write to the
\* event's RSVP fields between the snapshot the call read and the echo
EchoedAlone(c) == lastToggle[c].phase = "echoed" /\ lastToggle[c].clean

C5_AddStep ==
  \A c \in Clients, e \in EventIds :
    ToggleCall(c, e, FALSE) =>
      /\ IssuesOneWrite(c)
      /\ LastWrite(c).kind = "arrayUnion"
      /\ LastWrite(c).id = e
      /\ LastWrite(c).uid = user[c]
      /\ LastWrite(c).rsvpCount = InMemory(c, e).rsvpCount + 1
      /\ LastWrite(c).updatedAt = clock

C5_AddEcho(c) ==
  LET t == lastToggle[c] IN
    /\ FindIndex(events[c], t.id) # 0
    /\ InMemory(c, t.id).rsvpList = t.list \o <<t.uid>>
    /\ InMemory(c, t.id).rsvpCount = t.count + 1

C6_RemoveStep ==
  \A c \in Clients, e \in EventIds :
    ToggleCall(c, e, TRUE) =>
      /\ IssuesOneWrite(c)
      /\ LastWrite(c).kind = "arrayRemove"
      /\ LastWrite(c).id = e
      /\ LastWrite(c).uid = user[c]
      /\ LastWrite(c).rsvpCount = InMemory(c, e).rsvpCount - 1
      /\ LastWrite(c).updatedAt = clock

C6_RemoveEcho(c) ==
  LET t == lastToggle[c] IN
    /\ FindIndex(events[c], t.id) # 0
    /\ ~Includes(InMemory(c, t.id).rsvpList, t.uid)
    /\ \A u \in Users \ {t.uid} :
         Includes(t.list, u) => Includes(InMemory(c, t.id).rsvpList, u)
    /\ InMemory(c, t.id).rsvpCount = t.count - 1

C7_SignedOutToggleFails ==
  [][\A c \in Clients, e \in EventIds :
       toggleRSVP(c, e) /\ user[c] = NoUser =>
         /\ lastError'[c] = Error("toggleRSVP", e, "User must be logged in")
         /\ UNCHANGED <<outbox, store, comments, events, loading, cache,
                        cacheQ>>]_vars

\* a signed-out toggle on an event the list holds
C7_Witness ==
  \E c \in Clients :
    /\ user[c] = NoUser
    /\ lastError[c].op = "toggleRSVP"
    /\ lastError[c].msg = "User must be logged in"
    /\ FindIndex(events[c], lastError[c].id) # 0

\* C8: toggleRSVP on an id missing from the in-memory list throws 'Event not
\* found' and issues no write, also when the remote collection has the event.
C8_UnknownEventToggleFails ==
  [][\A c \in Clients, e \in EventIds :
       toggleRSVP(c, e) /\ user[c] # NoUser /\ FindIndex(events[c], e) = 0 =>
         /\ lastError'[c] = Error("toggleRSVP", e, "Event not found")
         /\ UNCHANGED <<outbox, store, comments>>]_vars

\* the toggle failed on an event that exists remotely
C8_Witness ==
  \E c \in Clients :
    /\ lastError[c].op = "toggleRSVP"
    /\ lastError[c].msg = "Event not found"
    /\ FindIndex(events[c], lastError[c].id) = 0
    /\ lastError[c].id \in LiveIds(store)

\* a step of one of the five write operations, or the backend's answer to one
OperationStep ==
  \E c \in Clients :
    \/ \E e \in EventIds : toggleRSVP(c, e) \/ deleteEvent(c, e) \/ addComment(c, e)
    \/ \E dt \in DateTimes : createEvent(c, dt)
    \/ \E e \in EventIds, dt \in DateTimes : updateEvent(c, e, dt)
    \/ Commit(c)
    \/ Reject(c)

SynchronizerStep ==
  \E c \in Clients : Deliver(c) \/ DeliverMirrored(c) \/ HydrateApply(c)

MirrorsCollection(list, st) ==
  /\ Len(list) = Cardinality(LiveIds(st))
  /\ \A id \in LiveIds(st) :
       \E i \in 1..Len(list) :
         /\ list[i].id = id
         /\ list[i].hostId = st[id].hostId
         /\ list[i].rsvpCount = st[id].rsvpCount
         /\ list[i].rsvpList = st[id].rsvpList
         /\ list[i].dateTime = toDate(st[id].dateTime)
         /\ list[i].createdAt = toDate(st[id].createdAt)
         /\ list[i].updatedAt = toDate(st[id].updatedAt)
  /\ \A i, j \in 1..Len(list) : i < j => list[i].dateTime <= list[j].dateTime

\* C10: right after a snapshot is processed the in-memory list holds exactly
\* the decoded documents of the collection, in ascending dateTime order.
C10_SnapshotReplacesList ==
  [][\A c \in Clients :
       Deliver(c) \/ DeliverMirrored(c) => MirrorsCollection(events'[c], store)]_vars

\* a snapshot of two events, the later-created one first, has replaced the
\* list hydrated from an older cache
C10_Witness ==
  \E c \in Clients :
    /\ hyd[c] = <<"done">>
    /\ cache[c] = EarlierMirror
    /\ cacheQ[c] = <<Stringify(events[c])>>
    /\ c \notin stale
    /\ Len(events[c]) = 2
    /\ IdRank(events[c][1].id) > IdRank(events[c][2].id)
    /\ events[c][1].dateTime < events[c][2].dateTime

\* no step of the hydration and no cache write of device c is pending
Quiescent(c) == hyd[c] = <<"done">> /\ cacheQ[c] = <<>>

\* C11: last snapshot wins: once a snapshot has been applied the hydration
\* never replaces the list by an older cached one, and with no asynchronous
\* step pending the list equals the most recently delivered snapshot.
C11_LastSnapshotWins ==
  /\ [][\A c \in Clients :
         lastSnapshot[c] # <<>> /\ HydrateApply(c) => events'[c] = events[c]]_vars
  /\ [](\A c \in Clients :
          lastSnapshot[c] # <<>> /\ Quiescent(c) => events[c] = lastSnapshot[c][1])

\* C12: every delivered snapshot is written wholesale to the cache: with no
\* cache write pending the cache decodes to exactly the most recently
\* delivered snapshot, also after several writes were in flight together.
C12_CacheMirrorsLastSnapshot ==
  \A c \in Clients :
    lastSnapshot[c] # <<>> /\ cacheQ[c] = <<>> =>
      /\ cache[c] \notin {NoBlob, Corrupt}
      /\ ParseCached(cache[c]) = lastSnapshot[c][1]

\* C13: when the subscription reports an error the list and the cache stay as
\* they were, the loading flag becomes false, and the client starts no retry
\* and no new subscription: the listener stays ended.
C13_SubscriptionErrorLeavesList ==
  /\ [][\A c \in Clients :
         SubscriptionError(c) =>
           /\ events' = events
           /\ cache' = cache
           /\ cacheQ' = cacheQ
           /\ ~loading'[c]
           /\ sub'[c] = "failed"
           /\ outbox' = outbox]_vars
  /\ [][\A c \in Clients : sub[c] = "failed" => sub'[c] # "open"]_vars

\* the subscription failed before any snapshot, while the list showed a
\* hydrated cache that the collection no longer matches
C13_Witness ==
  \E c \in Clients :
    /\ sub[c] = "failed"
    /\ ~loading[c]
    /\ events[c] # <<>>
    /\ lastSnapshot[c] = <<>>
    /\ c \in stale
    /\ events[c] # DecodeSnapshot(store)

\* the value getItem resolved with is null or does not parse
Unusable(blob) == blob \in {NoBlob, Corrupt}

HydrationStep(c) == HydrateRead(c) \/ HydrateFails(c) \/ HydrateApply(c)

\* C14: hydration never throws; with the cached blob missing, unreadable or
\* not decodable it leaves the list as it is (empty before the first
\* snapshot), so that only a snapshot fills the list.
C14_ColdStartHydration ==
  /\ [][\A c \in Clients :
         /\ HydrationStep(c) => lastError' = lastError
         /\ events'[c] # events[c] =>
              \/ Deliver(c)
              \/ HydrateApply(c) /\ ~Unusable(hyd[c][2])]_vars
  /\ [](\A c \in Clients :
          lastSnapshot[c] = <<>> /\ Unusable(cache[c]) => events[c] = <<>>)

\* hydration is over on a device whose cache does not parse, and the list is
\* the snapshot of a collection that is not empty
C14_Witness ==
  \E c \in Clients :
    /\ hyd[c] = <<"done">>
    /\ cache[c] = Corrupt
    /\ lastSnapshot[c] # <<>>
    /\ events[c] # <<>>
    /\ events[c] = lastSnapshot[c][1]

C15_LoadingSteps ==
  \A c \in Clients :
    /\ Deliver(c) \/ DeliverMirrored(c) => ~loading'[c]
    /\ HydrationStep(c) => loading' = loading

\* C15 (as amended): the loading flag is true from provider start until the
\* first snapshot arrives or the subscription reports an error, is false
\* right after a snapshot is applied, and hydration alone never changes it.
C15_LoadingUntilSnapshotOrError ==
  /\ [][C15_LoadingSteps]_vars
  /\ [](\A c \in Clients :
          sub[c] = "open" /\ lastSnapshot[c] = <<>> => loading[c])

\* the list shows the hydrated cache, no snapshot has arrived and the flag is
\* still true
C15_Witness ==
  \E c \in Clients :
    /\ sub[c] = "open"
    /\ lastSnapshot[c] = <<>>
    /\ hyd[c] = <<"done">>
    /\ events[c] # <<>>
    /\ loading[c]

\* C15 (as stated): the loading flag is true from provider start until the
\* first snapshot arrives, is false right after that snapshot is applied, and
\* hydration alone never changes it.
C15_LoadingUntilFirstSnapshot ==
  /\ [][C15_LoadingSteps]_vars
  /\ [](\A c \in Clients : lastSnapshot[c] = <<>> => loading[c])

\* C16: refreshEvents is a no-op on the read-model: it changes neither the
\* list nor the loading flag nor the cache, issues no backend request and
\* opens no subscription.
C16_RefreshIsNoOp ==
  [][\A c \in Clients :
       refreshEvents(c) =>
         UNCHANGED <<events, loading, cache, cacheQ, outbox, store, sub>>]_vars

\* C18: one subscription per authenticated session: none is open while
\* nobody is signed in (it is torn down when the session ends), a new sign-in
\* finds or opens one, and after teardown no delivery changes the list, the
\* loading flag or the cache.
C18_OneSubscriptionPerSession ==
  /\ [](\A c \in Clients : user[c] = NoUser => sub[c] # "open")
  /\ [][\A c \in Clients, u \in Users : SignIn(c, u) => sub'[c] = "open"]_vars
  /\ [][\A c \in Clients :
         sub[c] = "closed" =>
           /\ sub'[c] = "closed"
           /\ ~DeliverMirrored(c) /\ ~Deliver(c)]_vars

\* the ids of the collection's documents, in the order of the query
DocIds == OrderedIds(store, LiveIds(store))

C17_DecodeStep ==
  \A c \in Clients :
    /\ Deliver(c) \/ DeliverMirrored(c) =>
         /\ Len(events'[c]) = Len(DocIds)
         /\ \A i \in 1..Len(DocIds) : events'[c][i].id = DocIds[i]
    /\ getEvents(c) /\ fetched'[c][1] = "events" /\ lastError'[c] = Ok =>
         /\ Len(fetched'[c][2]) = Len(DocIds)
         /\ \A i \in 1..Len(DocIds) : fetched'[c][2][i].id = DocIds[i]
    /\ \A e \in LiveIds(store) :
         getEvent(c, e) /\ lastError'[c] = Ok => fetched'[c] # <<"null">>
                                                   /\ fetched'[c][2].id = e

\* C17: decoding a document yields an Event whose id is the document's
\* identifier, also when the body has an id field of another value, in the
\* subscription's decoder and in FirebaseService.getEvents / getEvent.
C17_DecodedIdIsDocumentId == [][C17_DecodeStep]_vars

\* C19: the filter projection is idempotent: applied to its own output with
\* the same search text and filters it returns that output unchanged.
C19_FilterIdempotent ==
  \A c \in Clients :
    feed[c].shown =>
      ApplyFilters(feed[c].filteredEvents, feed[c].searchQuery, feed[c].filters)
        = feed[c].filteredEvents

\* every filter is active and has removed some, but not all, of the events
C19_Witness ==
  \E c \in Clients :
    /\ feed[c].shown
    /\ trim(feed[c].searchQuery) # <<>>
    /\ feed[c].filters.type # Null
    /\ feed[c].filters.difficulty # Null
    /\ feed[c].filters.dateRange # <<>>
    /\ Len(feed[c].filteredEvents) >= 1
    /\ Len(feed[c].filteredEvents) < Len(events[c])

\* the query occurs in the text, letter case aside
ContainsIgnoringCase(text, query) ==
  \E k \in 0..(Len(text) - Len(query)) :
    \A i \in 1..Len(query) :
      toLowerCase(<<text[k + i]>>) = toLowerCase(<<query[i]>>)

\* the event satisfies every active filter
Matches(event, searchQuery, filters) ==
  /\ \/ \A i \in 1..Len(searchQuery) : searchQuery[i] \in Whitespace
     \/ ContainsIgnoringCase(event.title, searchQuery)
     \/ ContainsIgnoringCase(event.description, searchQuery)
     \/ ContainsIgnoringCase(event.location.address, searchQuery)
  /\ filters.type = Null \/ event.type = filters.type
  /\ filters.difficulty = Null \/ event.difficulty = filters.difficulty
  /\ \/ filters.dateRange = <<>>
     \/ /\ filters.dateRange[1] <= event.dateTime
        /\ event.dateTime <= filters.dateRange[2]

\* the events of the first list that are also in the second, in its order
Intersection(first, second) ==
  SelectSeq(first, LAMBDA e : Includes(second, e))

\* C20: the projection returns, in input order, exactly the events that
\* satisfy all active filters (case-insensitive substring search in title,
\* description or address, blank query inactive; type and difficulty equal
\* when set; start <= dateTime <= end when a range is set), so that filtering
\* by type and difficulty is the intersection of filtering by each.
C20_FilterIsConjunction ==
  \A c \in Clients :
    feed[c].shown =>
      LET q == feed[c].searchQuery
          f == feed[c].filters
      IN  /\ feed[c].filteredEvents =
               SelectSeq(events[c], LAMBDA e : Matches(e, q, f))
          /\ feed[c].filteredEvents =
               Intersection(
                 ApplyFilters(events[c], q, [f EXCEPT !.difficulty = Null]),
                 ApplyFilters(events[c], q, [f EXCEPT !.type = Null]))

\* type and difficulty alone are set (the query is blank) and one event of
\* three has both
C20_Witness ==
  \E c \in Clients :
    /\ feed[c].shown
    /\ Len(events[c]) = 3
    /\ feed[c].searchQuery = <<" ">>
    /\ feed[c].filters.type # Null
    /\ feed[c].filters.difficulty # Null
    /\ feed[c].filters.dateRange = <<>>
    /\ Len(feed[c].filteredEvents) = 1

\* same length and order, and the same id, title, RSVP fields and dates
SameEvents(a, b) ==
  /\ Len(a) = Len(b)
  /\ \A i \in 1..Len(a) :
       /\ a[i].id = b[i].id
       /\ a[i].title = b[i].title
       /\ a[i].rsvpCount = b[i].rsvpCount
       /\ a[i].rsvpList = b[i].rsvpList
       /\ a[i].dateTime = b[i].dateTime
       /\ a[i].createdAt = b[i].createdAt
       /\ a[i].updatedAt = b[i].updatedAt

\* C21: cache round trip: the string cacheEvents writes for a list decodes,
\* in loadCachedEvents, to a list of the same length and order with identical
\* id, title, rsvpCount, rsvpList and dates equal to the millisecond.
C21_CacheRoundTrip ==
  [][\A c \in Clients :
       /\ Deliver(c) =>
            SameEvents(ParseCached(cacheQ'[c][Len(cacheQ'[c])]), events'[c])
       /\ /\ HydrateApply(c)
          /\ lastSnapshot[c] # <<>>
          /\ hyd[c][2] = Stringify(lastSnapshot[c][1])
          => SameEvents(events'[c], lastSnapshot[c][1])]_vars

\* hydration has read back what this session's snapshot wrote: an event
\* whose dates do not fall on a full second
C21_Witness ==
  \E c \in Clients :
    /\ hyd[c] = <<"done">>
    /\ lastSnapshot[c] # <<>>
    /\ cache[c] = Stringify(lastSnapshot[c][1])
    /\ events[c] = ParseCached(cache[c])
    /\ Len(events[c]) >= 1
    /\ events[c][1].createdAt % 1000 # 0
    /\ events[c][1].updatedAt % 1000 # 0

\* the documents a step has added to the collection
Created == {id \in DOMAIN store' : id \notin DOMAIN store}

\* C23: createEvent hands a document create to the backend only for a caller
\* signed in with role organizer; for a signed-out caller or one with role
\* user it fails with an error and issues no write; every created document
\* has the caller's hostId and hostName, rsvpCount 0 and an empty rsvpList.
C23_CreateEventOrganizerOnly ==
  [][\A c \in Clients :
       /\ \A dt \in DateTimes :
            createEvent(c, dt) =>
              IF user[c] # NoUser /\ Role(user[c]) = "organizer"
              THEN /\ IssuesOneWrite(c)
                   /\ LastWrite(c).kind = "addDoc"
                   /\ LastWrite(c).uid = user[c]
              ELSE /\ outbox' = outbox
                   /\ store' = store
                   /\ lastError'[c].op = "createEvent"
                   /\ lastError'[c].msg # Ok.msg
       /\ Commit(c) /\ Head(outbox[c]).kind = "addDoc" =>
            /\ Created # {}
            /\ \A id \in Created :
                 /\ store'[id].hostId = Head(outbox[c]).uid
                 /\ store'[id].hostName = displayName(Head(outbox[c]).uid)
                 /\ store'[id].rsvpCount = 0
                 /\ store'[id].rsvpList = <<>>
                 /\ Role(store'[id].hostId) = "organizer"]_vars

\* an organizer's create, issued in this session, has been committed
C23_Witness ==
  /\ user["c1"] = "u1"
  /\ lastError["c1"] = Ok
  /\ \E id \in LiveIds(store) :
       /\ store[id].createdAt = TimestampFromDate(Epoch)
       /\ store[id].hostId = "u1"
       /\ store[id].hostName = displayName("u1")
       /\ store[id].rsvpCount = 0

\* C22: an event whose dateTime is not after the current time exposes no
\* RSVP button, on the card and on the details screen, whatever the viewer's
\* RSVP state; and no tap on a screen hands a toggleRSVP write to the
\* backend for an event that is past at the moment of the tap.
C22_PastEventHasNoRSVP ==
  /\ [](\A c \in Clients :
         card[c].shown /\ card[c].event.dateTime <= clock => ~card[c].button)
  /\ [][\A c \in Clients :
         handleRSVP(c) /\ card[c].event.dateTime <= clock
           => outbox' = outbox]_vars

\* the roles before and after a step: of every stored user document, and of
\* the session user while it stays the same user
RoleKept ==
  /\ \A u \in DOMAIN userDocs :
       u \in DOMAIN userDocs' /\ userDocs'[u].role = userDocs[u].role
  /\ sessionUser.uid # NoUser /\ sessionUser'.uid = sessionUser.uid
       => sessionUser'.role = sessionUser.role

\* C24: a user's role is fixed at registration: no step of an operation
\* called after sign-up, updateProfile with any updates object in particular,
\* changes the role in the stored user document or in the session user.
C24_RoleFixedAtRegistration ==
  [][authCall.op # "signUp" /\ authCall'.op # "signUp" => RoleKept]_vars

SignUpSettled ==
  /\ authCall.op = "signUp"
  /\ authCall.pc = "done"
  /\ cbs = <<>>

\* C27: once signUp has returned and every auth-state callback has finished,
\* the stored user document and the session user both carry the role chosen
\* at registration.
C27_SignUpKeepsChosenRole ==
  SignUpSettled =>
    /\ authCall.uid \in DOMAIN userDocs
    /\ userDocs[authCall.uid].role = authCall.role
    /\ sessionUser.uid = authCall.uid
    /\ sessionUser.role = authCall.role

SignOutSettled ==
  /\ authCall.op = "signOut"
  /\ authCall.pc = "done"
  /\ cbs = <<>>

\* C28: once signOut has returned and every auth-state callback has
\* finished, the session user is null and the persisted 'user' entry is
\* absent.
C28_SignOutClearsSession ==
  SignOutSettled => sessionUser = NoSession /\ persisted = NoSession

\* C25: isEventUpcoming(d) is true exactly when d is strictly after the
\* current time (false when d equals it), and getTimeUntilEvent(d) returns
\* 'Event has started' exactly when isEventUpcoming(d) is false.
C25_UpcomingIffStrictlyAfterNow ==
  probe.fn = "dateHelpers" =>
    /\ probe.upcoming # <<>> =>
         /\ probe.upcoming[1] <=> probe.eventDate > clock
         /\ probe.eventDate = clock => ~probe.upcoming[1]
    /\ probe.upcoming # <<>> /\ probe.until # <<>> =>
         (probe.until[1].text = "Event has started" <=> ~probe.upcoming[1])

\* both helpers have been called for an event that starts at this very
\* millisecond
C25_Witness ==
  /\ probe.fn = "dateHelpers"
  /\ probe.eventDate = clock
  /\ probe.upcoming = <<FALSE>>
  /\ probe.until # <<>>
  /\ probe.until[1].text = "Event has started"

\* the part of an address before its first '@' and the part after it
AtSigns(email) == {k \in 1..Len(email) : email[k] = "@"}

FirstAt(email) == CHOOSE k \in AtSigns(email) : \A j \in AtSigns(email) : k <= j

LocalPart(email) == SubSeq(email, 1, FirstAt(email) - 1)

Domain(email) == SubSeq(email, FirstAt(email) + 1, Len(email))

HasDot(str) == \E k \in 1..Len(str) : str[k] = "."

HasTwoDots(str) == \E k \in 1..(Len(str) - 1) : str[k] = "." /\ str[k + 1] = "."

\* the strings the address rules turn down
Malformed(email) ==
  \/ email = <<>>
  \/ AtSigns(email) = {}
  \/ /\ AtSigns(email) # {}
     /\ \/ LocalPart(email) = <<>>
        \/ Domain(email) = <<>>
        \/ ~HasDot(Domain(email))
        \/ HasTwoDots(LocalPart(email))

\* name@host.tld with nothing but letters in the three parts
Plain(email) ==
  /\ Cardinality(AtSigns(email)) = 1
  /\ Cardinality({k \in 1..Len(email) : email[k] = "."}) = 1
  /\ \A k \in 1..Len(email) : email[k] \notin Whitespace
  /\ LocalPart(email) # <<>>
  /\ ~HasDot(LocalPart(email))
  /\ Domain(email)[1] # "."
  /\ email[Len(email)] # "."

\* C26: validateEmail returns true for well-formed addresses and false for
\* the empty string and for every string with no '@', an empty local part,
\* an empty domain, a domain without a dot, or two consecutive dots in the
\* local part.
C26_ValidateEmail ==
  probe.fn = "validateEmail" /\ probe.result # <<>> =>
    /\ Plain(probe.email) => probe.result[1]
    /\ Malformed(probe.email) => ~probe.result[1]

\* the subscription has delivered its first snapshot or its error
FirstAnswer(c) == lastSnapshot[c] # <<>> \/ sub[c] = "failed"

\* C29: once the subscription has delivered its first snapshot or error,
\* the loading flag never stays true for ever: after any later call of
\* refreshEvents it becomes false again, also when the remote collection
\* does not change.
C29_LoadingEventuallyFalse ==
  \A c \in Clients : (FirstAnswer(c) /\ loading[c]) ~> ~loading[c]

\* client c has tapped twice: its two writes, computed from the same
\* snapshot of the event, are both awaited; the stored event is as that
\* snapshot shows it, and no other client has a write under way
DoubleTap(c) ==
  /\ Len(outbox[c]) = 2
  /\ outbox[c][1].kind \in {"arrayUnion", "arrayRemove"}
  /\ outbox[c][2] = [outbox[c][1] EXCEPT !.updatedAt = outbox[c][2].updatedAt]
  /\ lastToggle[c].id = outbox[c][2].id
  /\ lastToggle[c].uid = outbox[c][2].uid
  /\ outbox[c][2].id \in LiveIds(store)
  /\ store[outbox[c][2].id].rsvpList = lastToggle[c].list
  /\ store[outbox[c][2].id].rsvpCount = lastToggle[c].count
  /\ \A d \in Clients \ {c} : outbox[d] = <<>>

\* the stored event once the backend has applied both writes
AfterDoubleTap(c) ==
  ApplyWrite(ApplyWrite(store, outbox[c][1]), outbox[c][2])[outbox[c][2].id]

\* C30: double tap: two toggleRSVP calls of one user on one event, both
\* computed from the same snapshot, with no other client writing, leave the
\* document with the user's membership changed once, rsvpCount changed by
\* exactly 1 and equal to the size of rsvpList.
C30_DoubleTapTogglesOnce ==
  \A c \in Clients :
    DoubleTap(c) =>
      LET uid  == lastToggle[c].uid
          seen == lastToggle[c]
          end  == AfterDoubleTap(c)
      IN  /\ Includes(end.rsvpList, uid) # Includes(seen.list, uid)
          /\ \A u \in Users \ {uid} :
               Includes(end.rsvpList, u) = Includes(seen.list, u)
          /\ end.rsvpCount - seen.count \in {1, 0 - 1}
          /\ end.rsvpCount = Len(end.rsvpList)

====
